---- MODULE Spec2Model ----
(***************************************************************************)
(* A model of the KIS streaming client (src/kis/ws.py), the IOC execution  *)
(* loops (src/kis/strategy.py) and the trading session (src/kis/session.py)*)
(*                                                                         *)
(* Scheduling: asyncio runs one coroutine at a time and switches only at   *)
(* an await.  Every action below is the code between two suspension        *)
(* points of one coroutine.  Time (event-loop time and kst_now) advances   *)
(* by Tick between any two actions.  Every deadline is kept as the time    *)
(* left until it, in coarse ticks: end - time() is the field left of a     *)
(* pending wait, session_end - kst_now() is to_end.                        *)
(***************************************************************************)
EXTENDS Integers, Sequences, FiniteSets, TLC

VARIABLES
    to_end,           \* session_end - kst_now(), 0 once the deadline is reached
    orderbook,        \* KISWebSocket._orderbook: code -> <<ask1, askq1, bid1, bidq1>>
    orderbook_seq,    \* KISWebSocket._orderbook_seq: code -> int
    orderbook_event,  \* KISWebSocket._orderbook_event: code -> flag of the asyncio.Event
    ob,               \* the frame of one wait_next_orderbook call
    aes_key,          \* KISWebSocket._aes_key / _aes_iv: the tr_ids with a cached key and iv
    fills_by_order,   \* KISWebSocket._fills_by_order: order_no -> queue of ExecFill
    exec_log,         \* the last EXEC_FILL / EXEC_NONFILL line the receive loop logged
    fw,               \* the frame of one wait_order_fills call
    fill_serial,      \* history: the number of ExecFill objects created so far
    tally,            \* history: per ExecFill, how often and for which order it was counted
    ws_sock,          \* KISWebSocket.ws and its transport: none, open, lost, closed
    recv_task,        \* KISWebSocket._recv_task: none, running, failed, cancelled
    subs,             \* the (tr_id, tr_key) subscriptions the server holds for the connection
    trade_price,      \* KISWebSocket._trade_price: code -> int
    trade_seq,        \* KISWebSocket._trade_seq: code -> int
    trade_event,      \* KISWebSocket._trade_event: code -> flag of the asyncio.Event
    tw,               \* the frame of one wait_trade_reach call
    live,             \* the venue: order number -> quantity of the IOC order not yet filled
    st,               \* the frame of one ioc_buy_with_ws / ioc_sell_with_ws call
    hd,               \* the frame of one wait_for_1pct_then_sell call
    sn                \* the frame of run_trading_session

obVars == <<orderbook, orderbook_seq, orderbook_event, ob>>
fillVars == <<aes_key, fills_by_order, exec_log, fw, fill_serial, tally>>
connVars == <<ws_sock, recv_task, subs>>
tradeVars == <<trade_price, trade_seq, trade_event, tw>>
stratVars == <<live, st, hd, sn>>
vars == <<to_end, orderbook, orderbook_seq, orderbook_event, ob,
          aes_key, fills_by_order, exec_log, fw, fill_serial, tally,
          ws_sock, recv_task, subs, trade_price, trade_seq, trade_event, tw,
          live, st, hd, sn>>

-----------------------------------------------------------------------------
(* Bounds of the model *)

MaxSeq == 2         \* order-book frames accepted per instrument
MaxWaitTimeout == 2 \* the largest timeout a caller of a wait passes, in ticks
MaxFills == 3       \* ExecFill objects created in one run
MaxOrders == 2      \* order numbers the venue hands out in one run

Codes == {"A", "B"}

-----------------------------------------------------------------------------
(* dict helpers: d.get(k, default) and d[k] = v *)

DictGet(d, k, default) == IF k \in DOMAIN d THEN d[k] ELSE default

DictSet(d, k, v) == [x \in (DOMAIN d) \cup {k} |-> IF x = k THEN v ELSE d[x]]

EmptyDict == [x \in {} |-> 0]

\* _ensure_event: a missing asyncio.Event is created unset
EnsureEvent(d, key) == IF key \in DOMAIN d THEN d ELSE DictSet(d, key, FALSE)

\* _bump_seq
BumpSeq(d, key) == DictSet(d, key, DictGet(d, key, 0) + 1)

-----------------------------------------------------------------------------
(* Order-book frames, topic H0STASP0.  A payload field is the text of a     *)
(* number or not: int() gives its value or raises.                          *)

Num(v) == [ok |-> TRUE, val |-> v]
Junk == [ok |-> FALSE, val |-> 0]

\* the payload after split("^"): n fields, code = vals[0], and the four
\* fields at offsets 3, 13, 23, 33
ObFrames ==
    { [code |-> c, n |-> 40, ask1 |-> Num(q[1]), bid1 |-> Num(q[2]),
       askq1 |-> Num(1), bidq1 |-> Num(1)] :
          c \in Codes, q \in {<<0, 0>>, <<10, 9>>} }
    \cup { [code |-> c, n |-> 40, ask1 |-> Num(10), bid1 |-> Junk,
            askq1 |-> Num(1), bidq1 |-> Num(1)] : c \in Codes }
    \cup { [code |-> c, n |-> 20, ask1 |-> Num(10), bid1 |-> Num(9),
            askq1 |-> Junk, bidq1 |-> Junk] : c \in Codes }

\* the try block of the H0STASP0 branch runs to its end: every index exists
\* and every int() succeeds
ObFrameDecodes_AskOnly(f) ==
    /\ f.n > 33
    /\ f.ask1.ok

ObFrameDecodes(f) ==
    /\ f.n > 33
    /\ f.ask1.ok /\ f.bid1.ok /\ f.askq1.ok /\ f.bidq1.ok

ObQuote(f) == <<f.ask1.val, f.askq1.val, f.bid1.val, f.bidq1.val>>

\* (a receive loop that creates the event and forgets to set it)
ObEventAfterFrame_NoSet(d, code) == EnsureEvent(d, code)

\* the event the receive loop sets after an accepted order-book frame
ObEventAfterFrame(d, code) == DictSet(d, code, TRUE)

\* does an accepted frame for code land inside the pending wait's window
ObHitsWait(code, newseq) ==
    /\ ob.pc = "suspended"
    /\ ob.code = code
    /\ newseq > ob.last_seq
    /\ ob.left > 0

\* the receive task is inside its while loop and recv() hands over frames
RecvRunning == recv_task = "running" /\ ws_sock = "open"

\* _recv_loop, one H0STASP0 frame
RecvOrderbookFrame(f) ==
    /\ RecvRunning
    /\ DictGet(orderbook_seq, f.code, 0) < MaxSeq
    /\ IF ObFrameDecodes(f)
       THEN /\ orderbook' = DictSet(orderbook, f.code, ObQuote(f))
            /\ orderbook_seq' = BumpSeq(orderbook_seq, f.code)
            /\ orderbook_event' = ObEventAfterFrame(orderbook_event, f.code)
            /\ ob' = IF ObHitsWait(f.code, DictGet(orderbook_seq, f.code, 0) + 1)
                     THEN [ob EXCEPT !.hit = TRUE]
                     ELSE ob
       ELSE UNCHANGED obVars

RecvOrderbook ==
    /\ \E f \in ObFrames : RecvOrderbookFrame(f)
    /\ UNCHANGED <<to_end, fillVars, connVars, tradeVars, stratVars>>

-----------------------------------------------------------------------------
(* wait_next_orderbook.  ob.pc: idle, suspended (inside wait_for),          *)
(* returned, raised.  ob.hit and ob.slept record the history of the call:  *)
(* a frame raised the sequence above last_seq before the deadline; the     *)
(* call has suspended at least once.                                       *)

ObIdle ==
    [pc |-> "idle", code |-> "A", last_seq |-> 0, left |-> 0, ret |-> <<>>,
     hit |-> FALSE, slept |-> FALSE]

\* (the test with >= for >)
ObFresh_Geq(cur, last_seq) == cur >= last_seq

\* the sequence test of the loop body
ObFresh(cur, last_seq) == cur > last_seq

\* one pass of the while loop, from its condition to the return, the raise
\* or the call of wait_for; no await lies between them
ObLoopPass(fr) ==
    LET cur == DictGet(orderbook_seq, fr.code, 0) IN
    IF fr.left > 0
    THEN IF ObFresh(cur, fr.last_seq) /\ fr.code \in DOMAIN orderbook
         THEN /\ ob' = [fr EXCEPT !.pc = "returned",
                                  !.ret = <<cur>> \o orderbook[fr.code]]
              /\ orderbook_event' = EnsureEvent(orderbook_event, fr.code)
         ELSE /\ ob' = [fr EXCEPT !.pc = "suspended", !.slept = TRUE]
              /\ orderbook_event' = DictSet(orderbook_event, fr.code, FALSE)
    ELSE /\ ob' = [fr EXCEPT !.pc = "raised"]
         /\ orderbook_event' = EnsureEvent(orderbook_event, fr.code)

\* the call, up to its first suspension
WaitNextOrderbookEnter(code, last_seq, timeout) ==
    ObLoopPass([ObIdle EXCEPT !.code = code, !.last_seq = last_seq,
                              !.left = timeout,
                              !.hit = /\ DictGet(orderbook_seq, code, 0) > last_seq
                                      /\ code \in DOMAIN orderbook])

\* wait_for comes back: the event was set, or the timeout fired
WaitNextOrderbookResume ==
    /\ ob.pc = "suspended"
    /\ \/ /\ ob.left = 0
          /\ ob' = [ob EXCEPT !.pc = "raised"]
          /\ UNCHANGED orderbook_event
       \/ /\ ob.left > 0
          /\ DictGet(orderbook_event, ob.code, FALSE)
          /\ ObLoopPass(ob)
    /\ UNCHANGED <<to_end, orderbook, orderbook_seq, fillVars,
                   connVars, tradeVars, stratVars>>

\* a caller with any instrument, any last_seq and any timeout
CallWaitNextOrderbook ==
    /\ ob.pc = "idle"
    /\ \E code \in Codes, last_seq \in 0..MaxSeq, timeout \in 1..MaxWaitTimeout :
           WaitNextOrderbookEnter(code, last_seq, timeout)
    /\ UNCHANGED <<to_end, orderbook, orderbook_seq, fillVars,
                   connVars, tradeVars, stratVars>>

\* the caller takes the result (or the TimeoutError)
TakeOrderbookResult ==
    /\ ob.pc \in {"returned", "raised"}
    /\ ob' = ObIdle
    /\ UNCHANGED <<to_end, orderbook, orderbook_seq, orderbook_event, fillVars,
                   connVars, tradeVars, stratVars>>

-----------------------------------------------------------------------------
(* The private execution-notification channel.                              *)

\* cfg.exec_tr_id of the production environment
ExecTrId == "H0STCNI0"

\* order numbers (ODNO); 0 stands for the empty text of a missing field
Orders == 1..MaxOrders

\* the text of a quantity or price field: float() parses it to a value, kept
\* in tenths, or raises
Flt(t) == [ok |-> TRUE, tenths |-> t]
NoFlt == [ok |-> FALSE, tenths |-> 0]

\* int() of a float: truncation toward zero
TruncTenths(t) == IF t >= 0 THEN t \div 10 ELSE -((-t) \div 10)

\* _safe_int
SafeInt(v, default) == IF v.ok THEN TruncTenths(v.tenths) ELSE default

\* the flag texts that occur, and (v or "").strip().upper() of each
FlagTexts == {"", "Y", "y", "N", "1", "0", "T", "true", " Y ", "YES"}

StripUpper(v) ==
    CASE v = "y" -> "Y"
      [] v = " Y " -> "Y"
      [] v = "true" -> "TRUE"
      [] OTHER -> v

\* _is_truthy
IsTruthy(v) == StripUpper(v) \in {"Y", "1", "T", "TRUE"}

\* a private-channel frame "data_type|tr_id|count|<b64>": whether the
\* payload decrypts, and the fields of the plain text after split("^")
ExecFrame(dt, tr, dec, nf, o, q, pr, rej) ==
    [data_type |-> dt, tr_id |-> tr, decrypts |-> dec, nf |-> nf,
     order_no |-> o, qty |-> q, price |-> pr, reject |-> rej]

ExecFrames ==
    { ExecFrame("1", ExecTrId, TRUE, 15, o, q, pr, rej) :
          o \in {1}, q \in {Flt(10), Flt(25), Flt(0), Flt(-10), NoFlt},
          pr \in {Flt(100), Flt(0), NoFlt}, rej \in FlagTexts }
    \cup { ExecFrame(dt, tr, dec, nf, o, Flt(10), Flt(100), rej) :
          dt \in {"0", "1"}, tr \in {ExecTrId, "H0STCNI9"}, dec \in BOOLEAN,
          nf \in {2, 11, 15}, o \in Orders, rej \in {"", "Y"} }

\* the fields of a whole payload: the last index the loop reads is 14
ExecFieldCount == 15

\* the fields the code reads, each with its default when the index is missing
FieldOrderNo(f) == IF f.nf > 2 THEN f.order_no ELSE 0
FieldQty(f) == SafeInt(IF f.nf > 9 THEN f.qty ELSE Flt(0), 0)
FieldPrice(f) == SafeInt(IF f.nf > 10 THEN f.price ELSE Flt(0), 0)
FieldReject(f) == IF f.nf > 12 THEN f.reject ELSE ""

\* (a classification that ignores the reject flag)
IsFill_NoReject(f) ==
    /\ FieldQty(f) > 0
    /\ FieldPrice(f) > 0

\* is_fill
IsFill(f) ==
    /\ ~IsTruthy(FieldReject(f))
    /\ FieldQty(f) > 0
    /\ FieldPrice(f) > 0

\* the frame reaches the classification: right topic and flag, key and iv
\* cached, and the payload decrypts
ExecFrameDecodes(f) ==
    /\ f.tr_id = ExecTrId
    /\ f.data_type = "1"
    /\ f.tr_id \in aes_key
    /\ f.decrypts

\* (every order sharing one queue)
OrderQueueKey_Shared(order_no) == 1

\* the key _get_order_queue files an order's queue under
OrderQueueKey(order_no) == order_no

\* _get_order_queue: the dict with the order's queue created when missing
GetOrderQueue_Fresh(d, order_no) == DictSet(d, OrderQueueKey(order_no), <<>>)

GetOrderQueue(d, order_no) ==
    IF OrderQueueKey(order_no) \in DOMAIN d THEN d
    ELSE DictSet(d, OrderQueueKey(order_no), <<>>)

\* q.put_nowait(fill) on the order's queue
PutFill(d, order_no, fill) ==
    LET g == GetOrderQueue(d, order_no)
        k == OrderQueueKey(order_no) IN
    DictSet(g, k, Append(g[k], fill))

\* does a fill for order_no arrive during the pending wait for it
FillJoinsWait(order_no) ==
    /\ fw.pc \in {"first", "next"}
    /\ fw.order_no = order_no

\* the line logged for a classified message: its tag and the qty, price and
\* rej it prints; whole records whether the payload behind it had all its
\* fields
NoExecLog == [tag |-> "", qty |-> 0, price |-> 0, rej |-> "", whole |-> TRUE]

ExecLogLine(tag, f) ==
    [tag |-> tag, qty |-> FieldQty(f), price |-> FieldPrice(f),
     rej |-> FieldReject(f), whole |-> f.nf >= ExecFieldCount]

\* _recv_loop, one private-channel frame
RecvExecFrame(f) ==
    /\ RecvRunning
    /\ IF ExecFrameDecodes(f)
       THEN IF IsFill(f)
            THEN LET fill == [id |-> fill_serial + 1, order_no |-> FieldOrderNo(f),
                              qty |-> FieldQty(f), price |-> FieldPrice(f)] IN
                 /\ fill_serial < MaxFills
                 /\ fill_serial' = fill_serial + 1
                 /\ fills_by_order' = PutFill(fills_by_order, fill.order_no, fill)
                 /\ tally' = Append(tally, [n |-> 0, by |-> {},
                                             order_no |-> fill.order_no,
                                             qty |-> fill.qty, price |-> fill.price])
                 /\ fw' = IF FillJoinsWait(fill.order_no)
                          THEN [fw EXCEPT !.arr_qty = @ + fill.qty,
                                          !.arr_value = @ + fill.qty * fill.price]
                          ELSE fw
                 /\ exec_log' = ExecLogLine("EXEC_FILL", f)
                 /\ UNCHANGED aes_key
            ELSE /\ exec_log' = ExecLogLine("EXEC_NONFILL", f)
                 /\ UNCHANGED <<aes_key, fills_by_order, fw, fill_serial, tally>>
       ELSE UNCHANGED fillVars

\* _recv_loop, one JSON control frame: header.tr_id, header.encrypt and
\* whether body.output carries iv and key
ControlFrame(tr, e, i, k) == [tr_id |-> tr, encrypt |-> e, iv |-> i, key |-> k]

ControlFrames ==
    { ControlFrame(ExecTrId, "Y", TRUE, TRUE), ControlFrame(ExecTrId, "N", TRUE, TRUE),
      ControlFrame(ExecTrId, "Y", FALSE, TRUE), ControlFrame(ExecTrId, "Y", TRUE, FALSE),
      ControlFrame("", "Y", TRUE, TRUE) }

RecvControl ==
    /\ RecvRunning
    /\ \E j \in ControlFrames :
          aes_key' = IF j.encrypt = "Y" /\ j.tr_id # "" /\ j.iv /\ j.key
                     THEN aes_key \cup {j.tr_id}
                     ELSE aes_key
    /\ UNCHANGED <<to_end, obVars, fills_by_order, exec_log, fw, fill_serial, tally,
                   connVars, tradeVars, stratVars>>

-----------------------------------------------------------------------------
(* wait_order_fills.  fw.pc: idle, first (inside the first wait_for),       *)
(* next (inside a later one), returned.  History of the call: pre_* sums   *)
(* the fills queued for the order when the call started, arr_* those that  *)
(* arrived for it while the call was pending.                              *)

RECURSIVE SumQty(_)
SumQty(q) == IF q = <<>> THEN 0 ELSE Head(q).qty + SumQty(Tail(q))

RECURSIVE SumValue(_)
SumValue(q) ==
    IF q = <<>> THEN 0 ELSE Head(q).qty * Head(q).price + SumValue(Tail(q))

FwIdle ==
    [pc |-> "idle", order_no |-> 0, left |-> 0, idle |-> 0,
     filled_qty |-> 0, filled_value |-> 0,
     pre_qty |-> 0, pre_value |-> 0, arr_qty |-> 0, arr_value |-> 0]

\* the call, up to await wait_for(q.get(), timeout=total_timeout)
WaitOrderFillsEnter(order_no, total_timeout, idle_timeout) ==
    LET d == GetOrderQueue(fills_by_order, order_no)
        q == d[OrderQueueKey(order_no)] IN
    /\ fills_by_order' = d
    /\ fw' = [FwIdle EXCEPT !.pc = "first", !.order_no = order_no,
                            !.left = total_timeout,
                            !.idle = idle_timeout,
                            !.pre_qty = SumQty(q), !.pre_value = SumValue(q)]

\* (a running value that adds the price instead of qty * price)
FillValue_NoQty(fill) == fill.price

\* the notional of one fill
FillValue(fill) == fill.qty * fill.price

\* q.get() hands over the oldest fill; the totals grow and the idle wait starts
WaitOrderFillsGet ==
    /\ fw.pc \in {"first", "next"}
    /\ LET k == OrderQueueKey(fw.order_no)
           q == fills_by_order[k] IN
       /\ q # <<>>
       /\ fills_by_order' = DictSet(fills_by_order, k, Tail(q))
       /\ fw' = [fw EXCEPT !.pc = "next",
                           !.left = fw.idle,
                           !.filled_qty = @ + Head(q).qty,
                           !.filled_value = @ + FillValue(Head(q))]
       /\ tally' = [tally EXCEPT ![Head(q).id] =
                        [@ EXCEPT !.n = @ + 1, !.by = @ \cup {fw.order_no}]]
    /\ UNCHANGED <<aes_key, exec_log, fill_serial>>

\* wait_for raises TimeoutError: the queue stayed empty until the timer fired
WaitOrderFillsTimeout_Never ==
    /\ FALSE
    /\ UNCHANGED fillVars

WaitOrderFillsTimeout ==
    /\ fw.pc \in {"first", "next"}
    /\ fills_by_order[OrderQueueKey(fw.order_no)] = <<>>
    /\ fw.left = 0
    /\ fw' = [fw EXCEPT !.pc = "returned"]
    /\ UNCHANGED <<aes_key, fills_by_order, exec_log, fill_serial, tally>>

\* a caller with any order id and any pair of timeouts
CallWaitOrderFills ==
    /\ fw.pc = "idle"
    /\ \E o \in Orders, tt \in 1..MaxWaitTimeout, it \in 1..MaxWaitTimeout :
           WaitOrderFillsEnter(o, tt, it)
    /\ UNCHANGED <<to_end, obVars, aes_key, exec_log, fill_serial, tally,
                   connVars, tradeVars, stratVars>>

\* the caller takes (filled_qty, filled_value)
TakeFillsResult ==
    /\ fw.pc = "returned"
    /\ fw' = FwIdle
    /\ UNCHANGED <<to_end, obVars, aes_key, fills_by_order, exec_log, fill_serial, tally,
                   connVars, tradeVars, stratVars>>

-----------------------------------------------------------------------------
(* Trade ticks, topic H0STCNT0, and wait_trade_reach.                       *)

\* poll_max_wait = 3.0, in ticks
PollMaxWait == 1

\* the payload after split("^"): code = vals[0], price = vals[2]
TradeFrames ==
    { [code |-> c, n |-> 10, price |-> Num(v)] : c \in Codes, v \in {10, 11} }
    \cup { [code |-> c, n |-> 10, price |-> Junk] : c \in Codes }
    \cup { [code |-> c, n |-> 2, price |-> Num(11)] : c \in Codes }

TradeFrameDecodes(f) == f.n > 2 /\ f.price.ok

\* _recv_loop, one H0STCNT0 frame
RecvTradeFrame(f) ==
    /\ RecvRunning
    /\ DictGet(trade_seq, f.code, 0) < MaxSeq
    /\ IF TradeFrameDecodes(f)
       THEN /\ trade_price' = DictSet(trade_price, f.code, f.price.val)
            /\ trade_seq' = BumpSeq(trade_seq, f.code)
            /\ trade_event' = DictSet(trade_event, f.code, TRUE)
       ELSE UNCHANGED <<trade_price, trade_seq, trade_event>>
    /\ tw' = IF /\ tw.pc = "suspended"
                /\ TradeFrameDecodes(f)
                /\ f.code = tw.code
                /\ f.price.val >= tw.target
             THEN [tw EXCEPT !.hit = TRUE]
             ELSE tw

\* the frame of one call of wait_trade_reach. History of the call: seen is the
\* stored price of code when the call was made (0 when there was none), open
\* whether the deadline was still ahead then, slept whether the call has
\* suspended, hit whether a tick at or above the target was processed while
\* the call was suspended, prev how the call before this one ended.
TwIdle == [pc |-> "idle", code |-> "A", target |-> 0, left |-> 0, ret |-> 0,
           seen |-> 0, open |-> FALSE, slept |-> FALSE, hit |-> FALSE,
           prev |-> "none"]

\* price >= target_price
TradeReached_Above(price, target) == price > target

TradeReached(price, target) == price >= target

Min(a, b) == IF a <= b THEN a ELSE b

\* one pass of the while loop of wait_trade_reach, up to the return, the
\* raise or the call of wait_for
TwLoopPass(fr) ==
    IF to_end > 0
    THEN IF /\ fr.code \in DOMAIN trade_price
            /\ TradeReached(trade_price[fr.code], fr.target)
         THEN /\ tw' = [fr EXCEPT !.pc = "returned", !.ret = trade_price[fr.code]]
              /\ trade_event' = EnsureEvent(trade_event, fr.code)
         ELSE /\ tw' = [fr EXCEPT !.pc = "suspended", !.slept = TRUE,
                                  !.left = Min(PollMaxWait, to_end)]
              /\ trade_event' = DictSet(trade_event, fr.code, FALSE)
    ELSE /\ tw' = [fr EXCEPT !.pc = "raised"]
         /\ trade_event' = EnsureEvent(trade_event, fr.code)

WaitTradeReachEnter(code, target) ==
    TwLoopPass([TwIdle EXCEPT !.code = code, !.target = target,
                              !.seen = DictGet(trade_price, code, 0),
                              !.open = to_end > 0,
                              !.prev = tw.prev])

\* wait_for comes back, by the event or by its timeout; either way the loop
\* goes round
WaitTradeReachResume ==
    /\ tw.pc = "suspended"
    /\ DictGet(trade_event, tw.code, FALSE) \/ tw.left = 0
    /\ TwLoopPass(tw)
    /\ UNCHANGED <<trade_price, trade_seq>>

-----------------------------------------------------------------------------
(* The connection as the execution loops see it.                            *)

\* the transport fails: recv() raises in the receive task, and the server
\* drops what the connection had subscribed
ConnLost ==
    /\ ws_sock = "open"
    /\ ws_sock' = "lost"
    /\ recv_task' = IF recv_task = "running" THEN "failed" ELSE recv_task
    /\ subs' = {}
    /\ UNCHANGED <<to_end, obVars, fillVars, tradeVars, stratVars>>

\* ws.send of subscribe / unsubscribe goes out only on an open socket
CanSend == ws_sock = "open"

-----------------------------------------------------------------------------
(* ioc_buy_with_ws and ioc_sell_with_ws.  st.pc names the await the call is *)
(* at: key (get_approval_key), sub (subscribe), wait_ob (wait_next_        *)
(* orderbook), psbl (inquire_psbl_cash), order and order_resp (order_cash: *)
(* the request, its answer), wait_fills (wait_order_fills), unsub (the     *)
(* unsubscribe of the finally block); then returned or raised.             *)

\* the timeouts the loops pass, in ticks: 5.0, 3.0 and 0.5 seconds
OrderbookTimeout == 2
FillTotalTimeout == 1
FillIdleTimeout == 1

MaxAttempts == 2    \* the largest max_attempts a caller passes
MaxQty == 1         \* the largest quantity of one order

\* buying power inquire_psbl_cash may report
CashLevels == {0, 12, 25}

\* int(psbl_cash * cash_use_ratio) // ask1, with cash_use_ratio = 0.98
Affordable(cash, ask1) == ((cash * 98) \div 100) \div ask1

StIdle ==
    [fn |-> "none", pc |-> "idle", code |-> "A", attempt |-> 0, max_attempts |-> 0,
     last_seq |-> 0, total_qty |-> 0, total_value |-> 0, remain |-> 0,
     px |-> 0, ord_qty |-> 0, odno |-> 0, placed |-> {}, caught |-> FALSE,
     sub_sent |-> FALSE, unsub_called |-> FALSE, ret |-> <<>>, recv_qty |-> 0,
     ordered_at |-> 0, rejected_at |-> 0, nocash_at |-> 0, nocash_qty |-> 0,
     late |-> FALSE]

ObTopic == "H0STASP0"
TradeTopic == "H0STCNT0"

\* the top of the for loop: the attempt cap, the deadline (buy) or the
\* remaining quantity (sell), then the call of wait_next_orderbook
StLoopHead(fr) ==
    IF \/ fr.attempt > fr.max_attempts
       \/ fr.fn = "buy" /\ to_end = 0
       \/ fr.fn = "sell" /\ fr.remain <= 0
    THEN /\ st' = [fr EXCEPT !.pc = "unsub"]
         /\ ob' = ObIdle
         /\ UNCHANGED orderbook_event
    ELSE /\ st' = [fr EXCEPT !.pc = "wait_ob"]
         /\ WaitNextOrderbookEnter(fr.code, fr.last_seq, OrderbookTimeout)

\* (a buy loop that returns the total value in place of the average)
StReturnValue_Total(fr) ==
    IF fr.total_qty <= 0 THEN <<0, <<0, 1>>>>
    ELSE <<fr.total_qty, <<fr.total_value, 1>>>>

\* what the loop returns: the sell loop (sold_qty, sold_value), the buy loop
\* (total_qty, total_value / total_qty) or (0, 0.0); the average is kept as
\* the fraction <<numerator, denominator>>
StReturnValue(fr) ==
    IF fr.fn = "sell" THEN <<fr.total_qty, fr.total_value>>
    ELSE IF fr.total_qty <= 0 THEN <<0, <<0, 1>>>>
    ELSE <<fr.total_qty, <<fr.total_value, fr.total_qty>>>>

\* (an unsubscribe written at the end of the try block: an exception skips it)
StAfterException_NoFinally(fr) ==
    [fr EXCEPT !.pc = "returned", !.caught = TRUE, !.ret = StReturnValue(fr)]

\* an exception inside the try block: except Exception prints it, the
\* finally block runs
StAfterException(fr) == [fr EXCEPT !.pc = "unsub", !.caught = TRUE]

\* await rest.get_approval_key()
StApprovalKey ==
    /\ st.pc = "key"
    /\ \/ st' = [st EXCEPT !.pc = "sub"]
       \/ st' = [st EXCEPT !.pc = "raised"]
    /\ UNCHANGED <<to_end, obVars, fillVars, connVars, tradeVars, live, hd, sn>>

\* await ws.subscribe(...), then the code up to the first await of the loop
StSubscribe ==
    /\ st.pc = "sub"
    /\ IF CanSend
       THEN /\ subs' = subs \cup {<<ObTopic, st.code>>}
            /\ StLoopHead([st EXCEPT !.sub_sent = TRUE, !.attempt = 1,
                                     !.last_seq = DictGet(orderbook_seq, st.code, 0)])
       ELSE /\ st' = [st EXCEPT !.pc = "raised"]
            /\ UNCHANGED <<subs, ob, orderbook_event>>
    /\ UNCHANGED <<to_end, orderbook, orderbook_seq, fillVars, ws_sock, recv_task,
                   tradeVars, live, hd, sn>>

\* wait_next_orderbook is back: a snapshot or TimeoutError
StObResult ==
    /\ st.pc = "wait_ob"
    /\ ob.pc \in {"returned", "raised"}
    /\ IF ob.pc = "raised"
       THEN /\ st' = StAfterException(st)
            /\ ob' = ObIdle
            /\ UNCHANGED orderbook_event
       ELSE LET seq == ob.ret[1]
                ask1 == ob.ret[2]
                bid1 == ob.ret[4]
                px == IF st.fn = "buy" THEN ask1 ELSE bid1 IN
            IF px <= 0
            THEN StLoopHead([st EXCEPT !.last_seq = seq, !.attempt = @ + 1])
            ELSE /\ st' = [st EXCEPT !.last_seq = seq, !.px = px,
                                     !.ord_qty = st.remain,
                                     !.pc = IF st.fn = "buy" THEN "psbl" ELSE "order"]
                 /\ ob' = ObIdle
                 /\ UNCHANGED orderbook_event
    /\ UNCHANGED <<to_end, orderbook, orderbook_seq, fillVars, connVars, tradeVars,
                   live, hd, sn>>

\* (a test that lets an affordable quantity of 0 through)
NoCash_Negative(affordable) == affordable < 0

\* if affordable <= 0: break
NoCash(affordable) == affordable <= 0

\* await rest.inquire_psbl_cash(...): buying power, or an error.  History:
\* nocash_at and nocash_qty are the attempt and the total quantity at which
\* an affordable quantity <= 0 was computed
StPsblCash ==
    /\ st.pc = "psbl"
    /\ \/ \E cash \in CashLevels :
             LET affordable == Affordable(cash, st.px)
                 fr == IF affordable <= 0
                       THEN [st EXCEPT !.nocash_at = st.attempt,
                                       !.nocash_qty = st.total_qty]
                       ELSE st IN
             st' = IF NoCash(affordable)
                   THEN [fr EXCEPT !.pc = "unsub"]
                   ELSE [fr EXCEPT !.pc = "order", !.ord_qty = affordable]
       \/ st' = StAfterException(st)
    /\ UNCHANGED <<to_end, obVars, fillVars, connVars, tradeVars, live, hd, sn>>

\* await rest.order_cash(...): the venue takes the order under a new order
\* number, or the placement fails and order_cash raises.  History:
\* ordered_at and rejected_at are the attempts of the last placement and of
\* the failed one, late whether a buy order went out at or after session_end
StOrderSend ==
    /\ st.pc = "order"
    /\ \/ /\ Cardinality(DOMAIN live) < MaxOrders
          /\ LET odno == Cardinality(DOMAIN live) + 1 IN
             /\ live' = DictSet(live, odno, st.ord_qty)
             /\ st' = [st EXCEPT !.pc = "order_resp", !.odno = odno,
                                  !.ordered_at = st.attempt,
                                  !.late = @ \/ (st.fn = "buy" /\ to_end = 0)]
       \/ /\ st' = StAfterException([st EXCEPT !.rejected_at = st.attempt])
          /\ UNCHANGED live
    /\ UNCHANGED <<to_end, obVars, fillVars, connVars, tradeVars, hd, sn>>

\* order_cash returns the order number; wait_order_fills starts
StOrderReturn ==
    /\ st.pc = "order_resp"
    /\ st' = [st EXCEPT !.pc = "wait_fills", !.placed = @ \cup {st.odno}]
    /\ WaitOrderFillsEnter(st.odno, FillTotalTimeout, FillIdleTimeout)
    /\ UNCHANGED <<to_end, obVars, aes_key, exec_log, fill_serial, tally,
                   connVars, tradeVars, live, hd, sn>>

\* wait_order_fills is back: the totals grow, the loop goes round
StFillsResult ==
    /\ st.pc = "wait_fills"
    /\ fw.pc = "returned"
    /\ fw' = FwIdle
    /\ StLoopHead(IF fw.filled_qty <= 0
                  THEN [st EXCEPT !.attempt = @ + 1]
                  ELSE [st EXCEPT !.attempt = @ + 1,
                                  !.total_qty = @ + fw.filled_qty,
                                  !.total_value = @ + fw.filled_value,
                                  !.remain = @ - fw.filled_qty])
    /\ UNCHANGED <<to_end, orderbook, orderbook_seq, aes_key, fills_by_order,
                   exec_log, fill_serial, tally, connVars, tradeVars, live, hd, sn>>

\* the quantity of the real fills received so far for a set of orders
RECURSIVE ReceivedQty(_, _)
ReceivedQty(t, orders) ==
    IF t = <<>> THEN 0
    ELSE (IF Head(t).order_no \in orders THEN Head(t).qty ELSE 0)
         + ReceivedQty(Tail(t), orders)

\* the fills of a set of orders that wait_order_fills handed to its caller
Collected(t, orders) ==
    SelectSeq(t, LAMBDA e : e.order_no \in orders /\ e.n >= 1)

\* finally: await ws.unsubscribe(...); then the return
StUnsubscribe ==
    /\ st.pc = "unsub"
    /\ IF CanSend
       THEN /\ subs' = subs \ {<<ObTopic, st.code>>}
            /\ st' = [st EXCEPT !.unsub_called = TRUE,
                                !.pc = "returned",
                                !.ret = StReturnValue(st),
                                !.recv_qty = ReceivedQty(tally, st.placed)]
       ELSE /\ st' = [st EXCEPT !.unsub_called = TRUE, !.pc = "raised"]
            /\ UNCHANGED subs
    /\ UNCHANGED <<to_end, obVars, fillVars, ws_sock, recv_task, tradeVars, live, hd, sn>>

\* a frame of ioc_buy_with_ws / ioc_sell_with_ws at its first await
BuyFrame(code, max_attempts) ==
    [StIdle EXCEPT !.fn = "buy", !.pc = "key", !.code = code,
                   !.max_attempts = max_attempts]

SellFrame(code, qty_to_sell, max_attempts) ==
    [StIdle EXCEPT !.fn = "sell", !.pc = "key", !.code = code,
                   !.remain = qty_to_sell, !.max_attempts = max_attempts]

-----------------------------------------------------------------------------
(* wait_for_1pct_then_sell.  hd.pc: key, sub, wait_trade, unsub, selling,   *)
(* returned, raised.                                                       *)

\* the frame of wait_for_1pct_then_sell.  History: cycle counts the hold
\* phases of the session, seq_at_sub is the number of trade ticks of the code
\* processed before this phase subscribed
HdIdle ==
    [pc |-> "idle", code |-> "A", buy_qty |-> 0, target |-> 0, target_hit |-> FALSE,
     sub_sent |-> FALSE, unsub_called |-> FALSE, ret |-> <<>>,
     waited |-> "", last_price |-> 0, sell_called |-> FALSE,
     cycle |-> 1, seq_at_sub |-> 0]

\* math.ceil(avg_buy * 1.01), with avg_buy = value / qty
Target(value, qty) == (value * 101 + qty * 100 - 1) \div (qty * 100)

HdApprovalKey ==
    /\ hd.pc = "key"
    /\ \/ hd' = [hd EXCEPT !.pc = "sub"]
       \/ hd' = [hd EXCEPT !.pc = "raised"]
    /\ UNCHANGED <<to_end, obVars, fillVars, connVars, tradeVars, live, st, sn>>

HdSubscribe ==
    /\ hd.pc = "sub"
    /\ IF CanSend
       THEN /\ subs' = subs \cup {<<TradeTopic, hd.code>>}
            /\ hd' = [hd EXCEPT !.pc = "wait_trade", !.sub_sent = TRUE,
                                !.seq_at_sub = DictGet(trade_seq, hd.code, 0)]
            /\ WaitTradeReachEnter(hd.code, hd.target)
       ELSE /\ hd' = [hd EXCEPT !.pc = "raised"]
            /\ UNCHANGED <<subs, tw, trade_event>>
    /\ UNCHANGED <<to_end, obVars, fillVars, ws_sock, recv_task, trade_price,
                   trade_seq, live, st, sn>>

\* (a flag set on both outcomes of the wait)
TargetHit_Always(outcome) == TRUE

\* target_hit stays False unless wait_trade_reach returned
TargetHit(outcome) == outcome = "returned"

\* wait_trade_reach is back: the target was reached, or TimeoutError.
\* History: waited is the outcome of the wait, last_price what it returned
HdTradeResult ==
    /\ hd.pc = "wait_trade"
    /\ tw.pc \in {"returned", "raised"}
    /\ hd' = [hd EXCEPT !.pc = "unsub", !.target_hit = TargetHit(tw.pc),
                        !.waited = tw.pc,
                        !.last_price = IF tw.pc = "returned" THEN tw.ret ELSE 0]
    /\ tw' = TwIdle
    /\ UNCHANGED <<to_end, obVars, fillVars, connVars, trade_price, trade_seq,
                   trade_event, live, st, sn>>

\* finally: await ws.unsubscribe(...); then ioc_sell_with_ws for buy_qty
HdUnsubscribe ==
    /\ hd.pc = "unsub"
    /\ IF CanSend
       THEN /\ subs' = subs \ {<<TradeTopic, hd.code>>}
            /\ hd' = [hd EXCEPT !.unsub_called = TRUE, !.pc = "selling",
                                !.sell_called = TRUE]
            /\ st' = SellFrame(hd.code, hd.buy_qty, MaxAttempts)
       ELSE /\ hd' = [hd EXCEPT !.unsub_called = TRUE, !.pc = "raised"]
            /\ UNCHANGED <<subs, st>>
    /\ UNCHANGED <<to_end, obVars, fillVars, ws_sock, recv_task, tradeVars, live, sn>>

\* ioc_sell_with_ws is back
HdSellResult ==
    /\ hd.pc = "selling"
    /\ st.pc \in {"returned", "raised"}
    /\ hd' = IF st.pc = "returned"
             THEN [hd EXCEPT !.pc = "returned",
                             !.ret = <<st.ret[1], st.ret[2], hd.target_hit>>]
             ELSE [hd EXCEPT !.pc = "raised"]
    /\ st' = StIdle
    /\ UNCHANGED <<to_end, obVars, fillVars, connVars, tradeVars, live, sn>>

HoldFrame(code, buy_qty, buy_value) ==
    [HdIdle EXCEPT !.pc = "key", !.code = code, !.buy_qty = buy_qty,
                   !.target = Target(buy_value, buy_qty)]

-----------------------------------------------------------------------------
(* run_trading_session.  sn.pc names the await the session is at: conn_key, *)
(* conn_open, conn_sub (inside ws.connect()), scan (find_candidate), buy   *)
(* (ioc_buy_with_ws), hold (wait_for_1pct_then_sell), liq (the sell loop   *)
(* of the forced liquidation), closing (ws.close() of the finally block);  *)
(* then returned or raised.  What the callees return is drawn from what    *)
(* they can return.                                                        *)

MaxSession == 2     \* ticks from the start of the model to session_end
MaxCycles == 5      \* while done < 5

\* cfg.hts_id, the key of the private-channel subscription
HtsId == "hts"

NoPosition == <<>>

MaxBuyQty == 2      \* the largest quantity a buy phase comes back with

\* history kept with the frame: opened (websockets.connect came back),
\* close_called, carried (the position a failed sell phase left recorded),
\* liq (the forced liquidations invoked, as <<code, qty>>), dead (the socket
\* was already lost when the pending callee was called, so its subscribe
\* raises), report (the line logged after the forced liquidation)
\* the ticks from session_start to session_end: room for MaxCycles cycles
\* on two codes that cool down for one tick
SessionTicks == MaxSession + 1

\* kst_now(), in ticks since the start of the session
KstNow == SessionTicks - to_end

\* timedelta(minutes=20), in ticks
CooldownWindow == 1

\* cooldowns.get(code) of a code that has no entry
NoStamp == 0 - 1

\* the frame of run_trading_session, with the cooldown table it is given.
\* History: picked_at and picked_last are, during the buy phase, the poll time
\* and the cooldown stamp the code had when find_candidate picked it; ended_at
\* is, until the next code is picked, the time at which the last buy or hold
\* phase of the code came back, by return or exception.
SnIdle ==
    [pc |-> "idle", done |-> 0, open_position |-> NoPosition, code |-> "A",
     buy_qty |-> 0, avg_buy |-> 0, sold_qty |-> 0, opened |-> FALSE,
     close_called |-> FALSE, carried |-> NoPosition, liq |-> <<>>, exc |-> FALSE,
     dead |-> FALSE, report |-> "", cooldowns |-> EmptyDict, picked_at |-> 0,
     picked_last |-> NoStamp, ended_at |-> NoStamp]

\* run_trading_session is called; a weekend session returns at once
SessionStart ==
    /\ sn.pc = "idle"
    /\ \E weekend \in BOOLEAN :
          sn' = [sn EXCEPT !.pc = IF weekend THEN "returned" ELSE "conn_key"]
    /\ UNCHANGED <<to_end, obVars, fillVars, connVars, tradeVars, live, st, hd>>

\* connect(): await self.rest.get_approval_key()
ConnectApprovalKey ==
    /\ sn.pc = "conn_key"
    /\ \/ sn' = [sn EXCEPT !.pc = "conn_open"]
       \/ sn' = [sn EXCEPT !.pc = "raised"]
    /\ UNCHANGED <<to_end, obVars, fillVars, connVars, tradeVars, live, st, hd>>

\* connect(): self.ws = await websockets.connect(...)
ConnectOpen ==
    /\ sn.pc = "conn_open"
    /\ \/ /\ sn' = [sn EXCEPT !.pc = "conn_sub", !.opened = TRUE]
          /\ ws_sock' = "open"
       \/ /\ sn' = [sn EXCEPT !.pc = "raised"]
          /\ UNCHANGED ws_sock
    /\ UNCHANGED <<to_end, obVars, fillVars, recv_task, subs, tradeVars, live, st, hd>>

\* the cycle loop is left: the forced liquidation, or the finally block
SessionAfterLoop(fr) ==
    IF fr.open_position # NoPosition /\ to_end = 0
    THEN [fr EXCEPT !.pc = "liq", !.dead = ~CanSend,
                    !.liq = Append(@, <<fr.open_position[1], fr.open_position[2]>>)]
    ELSE [fr EXCEPT !.pc = "closing"]

\* while done < 5 and kst_now() < session_end
SessionLoopHead_NoCap(fr) ==
    IF to_end > 0
    THEN [fr EXCEPT !.pc = "scan"]
    ELSE SessionAfterLoop(fr)

SessionLoopHead(fr) ==
    IF fr.done < MaxCycles /\ to_end > 0
    THEN [fr EXCEPT !.pc = "scan"]
    ELSE SessionAfterLoop(fr)

\* an exception inside the try block of the session: the finally block runs
SessionAfterException(fr) == [fr EXCEPT !.pc = "closing", !.exc = TRUE]

\* connect(): await self.subscribe(exec_tr_id, hts_id); on success the
\* receive task is created and the session enters its loop; on failure the
\* exception leaves connect() and run_trading_session, which is not yet
\* inside its try block
ConnectSubscribe ==
    /\ sn.pc = "conn_sub"
    /\ IF CanSend
       THEN /\ subs' = subs \cup {<<ExecTrId, HtsId>>}
            /\ recv_task' = "running"
            /\ sn' = SessionLoopHead(sn)
       ELSE /\ sn' = [sn EXCEPT !.pc = "raised"]
            /\ UNCHANGED <<subs, recv_task>>
    /\ UNCHANGED <<to_end, obVars, fillVars, ws_sock, tradeVars, live, st, hd>>

\* the ranking feed: items with a code and a change rate, parsable or not
RankedCodes == {"A", "B"}

RankingItems ==
    [code : RankedCodes, rate : {Num(19), Num(20), Num(28), Num(29), Junk}]

RankingFeeds ==
    {<<a>> : a \in RankingItems} \cup {<<a, b>> : a, b \in RankingItems}

NoCode == ""
ScanRaised == "!"

\* pick_code_from_ranking_item: float(str(rate)) failing leaves rate_f
\* unbound, and the test of the band raises
PickCodeFromRankingItem(item) ==
    IF ~item.rate.ok THEN ScanRaised
    ELSE IF 20 <= item.rate.val /\ item.rate.val <= 28 /\ item.code # ""
         THEN item.code
         ELSE NoCode

\* last and (now - last) < timedelta(minutes=20)
Cooling_Inclusive(cooldowns, code, now) ==
    /\ code \in DOMAIN cooldowns
    /\ now - cooldowns[code] <= CooldownWindow

Cooling(cooldowns, code, now) ==
    /\ code \in DOMAIN cooldowns
    /\ now - cooldowns[code] < CooldownWindow

\* for it in items: the first item in the band that is not cooling down
RECURSIVE ScanItems(_, _, _)
ScanItems(items, cooldowns, now) ==
    IF items = <<>> THEN NoCode
    ELSE LET code == PickCodeFromRankingItem(Head(items)) IN
         IF code = ScanRaised THEN ScanRaised
         ELSE IF code = NoCode \/ Cooling(cooldowns, code, now)
              THEN ScanItems(Tail(items), cooldowns, now)
              ELSE code

\* (a scan that gives up while the session still runs)
CandidateNone_Early == TRUE

\* find_candidate returns None only when its loop test fails
CandidateNone == to_end = 0

\* the buy or hold phase of fr.code has come back
PhaseEnded(fr) ==
    [fr EXCEPT !.ended_at = KstNow, !.picked_at = 0, !.picked_last = NoStamp]

\* cooldowns[code] = kst_now()
StampCooldown(fr) ==
    [fr EXCEPT !.cooldowns = DictSet(@, fr.code, KstNow)]

\* find_candidate is back: the code picked from the feed of a poll (a poll
\* that picks nothing is followed by the next one), None, or an exception of
\* the ranking call or of the scan of its items
FindCandidateResult ==
    /\ sn.pc = "scan"
    /\ \/ \E feed \in RankingFeeds :
             LET code == ScanItems(feed, sn.cooldowns, KstNow) IN
             /\ code # NoCode
             /\ sn' = IF code = ScanRaised
                       THEN SessionAfterException(sn)
                       ELSE [sn EXCEPT !.pc = "buy", !.code = code,
                                       !.dead = ~CanSend,
                                       !.picked_at = KstNow,
                                       !.ended_at = NoStamp,
                                       !.picked_last =
                                           DictGet(sn.cooldowns, code, NoStamp)]
       \/ /\ CandidateNone
          /\ sn' = SessionAfterLoop(sn)
       \/ sn' = SessionAfterException(sn)
    /\ UNCHANGED <<to_end, obVars, fillVars, connVars, tradeVars, live, st, hd>>

\* the average prices a buy can come back with
AvgPrices == {10}

\* ioc_buy_with_ws is back: (0, 0.0), a bought quantity, or an exception
BuyResult ==
    /\ sn.pc = "buy"
    /\ \/ /\ ~sn.dead
          /\ sn' = SessionLoopHead(StampCooldown(PhaseEnded(sn)))
       \/ /\ ~sn.dead
          /\ \E qty \in 1..MaxBuyQty, avg \in AvgPrices :
                sn' = [StampCooldown(PhaseEnded(sn))
                         EXCEPT !.pc = "hold", !.buy_qty = qty, !.avg_buy = avg,
                                 !.open_position = <<sn.code, qty, avg>>,
                                 !.dead = ~CanSend]
       \/ sn' = SessionAfterException(PhaseEnded(sn))
    /\ UNCHANGED <<to_end, obVars, fillVars, connVars, tradeVars, live, st, hd>>

\* the position recorded after the sell phase
PositionAfterSell(fr, sold_qty) ==
    IF sold_qty <= 0 THEN <<fr.code, fr.buy_qty, fr.avg_buy>> ELSE NoPosition

\* wait_for_1pct_then_sell is back: the sold quantity, or an exception
HoldResult ==
    /\ sn.pc = "hold"
    /\ \/ /\ ~sn.dead
          /\ \E sold_qty \in 0..sn.buy_qty :
                LET pos == PositionAfterSell(sn, sold_qty) IN
                sn' = SessionLoopHead(
                        [StampCooldown(PhaseEnded(sn))
                           EXCEPT !.open_position = pos,
                                   !.sold_qty = sold_qty,
                                   !.carried = IF sold_qty <= 0 /\ @ = NoPosition
                                               THEN pos ELSE @,
                                   !.done = IF sold_qty <= 0 THEN @ ELSE @ + 1])
       \/ sn' = SessionAfterException(PhaseEnded(sn))
    /\ UNCHANGED <<to_end, obVars, fillVars, connVars, tradeVars, live, st, hd>>

\* the line the session logs for the outcome of the forced liquidation
LiquidationReport(sold_qty) ==
    IF sold_qty > 0 THEN "LIQUIDATED" ELSE "LIQUIDATION FAILED"

\* the sell loop of the forced liquidation is back, with or without fills,
\* or with an exception
LiquidationResult ==
    /\ sn.pc = "liq"
    /\ \/ /\ ~sn.dead
          /\ \E sold_qty \in 0..sn.open_position[2] :
                sn' = [sn EXCEPT !.pc = "closing", !.sold_qty = sold_qty,
                                 !.report = LiquidationReport(sold_qty)]
       \/ sn' = SessionAfterException(sn)
    /\ UNCHANGED <<to_end, obVars, fillVars, connVars, tradeVars, live, st, hd>>

\* finally: await ws.close(): the receive task is cancelled, the socket
\* closed; then the session returns or the exception goes on
SessionClose ==
    /\ sn.pc = "closing"
    /\ recv_task' = IF recv_task = "none" THEN "none" ELSE "cancelled"
    /\ ws_sock' = IF ws_sock = "none" THEN "none" ELSE "closed"
    /\ subs' = {}
    /\ sn' = [sn EXCEPT !.close_called = TRUE,
                        !.pc = IF sn.exc THEN "raised" ELSE "returned"]
    /\ UNCHANGED <<to_end, obVars, fillVars, tradeVars, live, st, hd>>

\* KISWebSocket.__init__, and the callers at rest
InitWs ==
    /\ orderbook = EmptyDict
    /\ orderbook_seq = EmptyDict
    /\ orderbook_event = EmptyDict
    /\ ob = ObIdle
    /\ aes_key = {}
    /\ fills_by_order = EmptyDict
    /\ exec_log = NoExecLog
    /\ fw = FwIdle
    /\ fill_serial = 0
    /\ tally = <<>>
    /\ trade_price = EmptyDict
    /\ trade_seq = EmptyDict
    /\ trade_event = EmptyDict
    /\ tw = TwIdle
    /\ live = EmptyDict
    /\ st = StIdle
    /\ hd = HdIdle
    /\ sn = SnIdle

\* the connection after connect() has come back
Connected ==
    /\ ws_sock = "open"
    /\ recv_task = "running"
    /\ subs = {<<ExecTrId, HtsId>>}

\* a session about to start, SessionTicks ticks before session_end
Init ==
    /\ InitWs
    /\ to_end = SessionTicks
    /\ ws_sock = "none"
    /\ recv_task = "none"
    /\ subs = {}

\* a connected KISWebSocket with no deadline ahead
InitConnected ==
    /\ InitWs
    /\ Connected
    /\ to_end = 0

\* a connected KISWebSocket during a session, the key of the private channel
\* cached
InitStrat ==
    /\ orderbook = EmptyDict
    /\ orderbook_seq = EmptyDict
    /\ orderbook_event = EmptyDict
    /\ ob = ObIdle
    /\ aes_key = {ExecTrId}
    /\ fills_by_order = EmptyDict
    /\ exec_log = NoExecLog
    /\ fw = FwIdle
    /\ fill_serial = 0
    /\ tally = <<>>
    /\ trade_price = EmptyDict
    /\ trade_seq = EmptyDict
    /\ trade_event = EmptyDict
    /\ tw = TwIdle
    /\ live = EmptyDict
    /\ st = StIdle
    /\ hd = HdIdle
    /\ sn = SnIdle
    /\ Connected
    /\ to_end = MaxSession

\* Time passes: every pending deadline comes one tick closer
TimerRuns(fr, pcs) == fr.pc \in pcs /\ fr.left > 0

Tick ==
    /\ \/ to_end > 0
       \/ TimerRuns(ob, {"suspended"})
       \/ TimerRuns(fw, {"first", "next"})
       \/ TimerRuns(tw, {"suspended"})
    /\ to_end' = IF to_end > 0 THEN to_end - 1 ELSE 0
    /\ ob' = IF TimerRuns(ob, {"suspended"}) THEN [ob EXCEPT !.left = @ - 1] ELSE ob
    /\ fw' = IF TimerRuns(fw, {"first", "next"}) THEN [fw EXCEPT !.left = @ - 1] ELSE fw
    /\ tw' = IF TimerRuns(tw, {"suspended"}) THEN [tw EXCEPT !.left = @ - 1] ELSE tw
    /\ UNCHANGED <<orderbook, orderbook_seq, orderbook_event, aes_key, fills_by_order,
                   exec_log, fill_serial, tally, connVars, trade_price, trade_seq,
                   trade_event, stratVars>>

NextOb ==
    \/ Tick
    \/ RecvOrderbook
    \/ CallWaitNextOrderbook
    \/ WaitNextOrderbookResume
    \/ TakeOrderbookResult

SpecOb == InitConnected /\ [][NextOb]_vars

\* The receive loop on the private channel alone, fed every kind of frame
RecvExec ==
    /\ \E f \in ExecFrames : RecvExecFrame(f)
    /\ UNCHANGED <<to_end, obVars, connVars, tradeVars, stratVars>>

NextExec ==
    \/ RecvExec
    \/ RecvControl

SpecExec == InitConnected /\ [][NextExec]_vars

\* The fills a venue sends for the orders: real fills, one reject.
FillFeed ==
    { ExecFrame("1", ExecTrId, TRUE, 15, o, Flt(q), Flt(100), "N") :
          o \in Orders, q \in {20} }
    \cup { ExecFrame("1", ExecTrId, TRUE, 15, 1, Flt(10), Flt(100), "Y") }

RecvFill ==
    /\ \E f \in FillFeed : RecvExecFrame(f)
    /\ UNCHANGED <<to_end, obVars, connVars, tradeVars, stratVars>>

FwGet == WaitOrderFillsGet /\ UNCHANGED <<to_end, obVars, connVars, tradeVars, stratVars>>

FwTimeout ==
    WaitOrderFillsTimeout /\ UNCHANGED <<to_end, obVars, connVars, tradeVars, stratVars>>

NextFills ==
    \/ Tick
    \/ RecvControl
    \/ RecvFill
    \/ CallWaitOrderFills
    \/ FwGet
    \/ FwTimeout
    \/ TakeFillsResult

SpecFills == InitConnected /\ [][NextFills]_vars

\* The execution loops against a venue: quotes and trades of one instrument,
\* sent while the connection is subscribed to them, and fills of the orders
\* that are live
StratCode == "A"

RecvQuote ==
    /\ <<ObTopic, StratCode>> \in subs
    /\ \E f \in {g \in ObFrames : g.code = StratCode /\ ObFrameDecodes(g)} :
          RecvOrderbookFrame(f)
    /\ UNCHANGED <<to_end, fillVars, connVars, tradeVars, stratVars>>

RecvTrade ==
    /\ <<TradeTopic, StratCode>> \in subs
    /\ \E f \in {g \in TradeFrames : g.code = StratCode} : RecvTradeFrame(f)
    /\ UNCHANGED <<to_end, obVars, fillVars, connVars, stratVars>>

\* the venue fills part or all of what is left of a live order, at one of
\* the given prices, and reports it on the private channel
RecvVenueFillAt(prices) ==
    /\ \E o \in DOMAIN live : \E q \in 1..live[o] :
          \E pr \in prices :
             /\ RecvExecFrame(ExecFrame("1", ExecTrId, TRUE, 15, o, Flt(10 * q),
                                        Flt(10 * pr), "N"))
             /\ live' = [live EXCEPT ![o] = @ - q]
    /\ UNCHANGED <<to_end, obVars, connVars, tradeVars, st, hd, sn>>

RecvVenueFill == RecvVenueFillAt({10})

ObResume == WaitNextOrderbookResume

TwResume ==
    WaitTradeReachResume /\ UNCHANGED <<to_end, obVars, fillVars, connVars, stratVars>>

FwGetFill ==
    WaitOrderFillsGet /\ UNCHANGED <<to_end, obVars, connVars, tradeVars, stratVars>>

FwExpire ==
    WaitOrderFillsTimeout /\ UNCHANGED <<to_end, obVars, connVars, tradeVars, stratVars>>

\* one call of one of the three functions
CallBuy ==
    /\ st.pc = "idle" /\ hd.pc = "idle"
    /\ \E m \in 1..MaxAttempts : st' = BuyFrame(StratCode, m)
    /\ UNCHANGED <<to_end, obVars, fillVars, connVars, tradeVars, live, hd, sn>>

CallSell ==
    /\ st.pc = "idle" /\ hd.pc = "idle"
    /\ \E q \in 1..MaxQty, m \in 1..MaxAttempts : st' = SellFrame(StratCode, q, m)
    /\ UNCHANGED <<to_end, obVars, fillVars, connVars, tradeVars, live, hd, sn>>

CallHold ==
    /\ st.pc = "idle" /\ hd.pc = "idle"
    /\ \E q \in 1..MaxQty : hd' = HoldFrame(StratCode, q, 10 * q)
    /\ UNCHANGED <<to_end, obVars, fillVars, connVars, tradeVars, live, st, sn>>

NextStrat ==
    \/ Tick
    \/ ConnLost
    \/ RecvQuote
    \/ RecvTrade
    \/ RecvVenueFill
    \/ CallBuy
    \/ CallSell
    \/ CallHold
    \/ StApprovalKey
    \/ StSubscribe
    \/ ObResume
    \/ StObResult
    \/ StPsblCash
    \/ StOrderSend
    \/ StOrderReturn
    \/ FwGetFill
    \/ FwExpire
    \/ StFillsResult
    \/ StUnsubscribe
    \/ HdApprovalKey
    \/ HdSubscribe
    \/ TwResume
    \/ HdTradeResult
    \/ HdUnsubscribe
    \/ HdSellResult

SpecStrat == InitStrat /\ [][NextStrat]_vars

\* the steps the event loop runs on its own: a REST call or a send coming
\* back, a waiter woken by its event or its timer
StratStep ==
    \/ StApprovalKey
    \/ StSubscribe
    \/ ObResume
    \/ StObResult
    \/ StPsblCash
    \/ StOrderSend
    \/ StOrderReturn
    \/ FwGetFill
    \/ FwExpire
    \/ StFillsResult
    \/ StUnsubscribe
    \/ HdApprovalKey
    \/ HdSubscribe
    \/ TwResume
    \/ HdTradeResult
    \/ HdUnsubscribe
    \/ HdSellResult

\* the three functions on a connection that stays up
NextLoops ==
    \/ Tick
    \/ RecvQuote
    \/ RecvTrade
    \/ RecvVenueFill
    \/ CallBuy
    \/ CallSell
    \/ CallHold
    \/ StratStep

\* time passes and the event loop runs what is ready; nothing is assumed of
\* the frames the stream delivers
SpecLoopsFair ==
    InitStrat /\ [][NextLoops]_vars /\ WF_vars(Tick) /\ WF_vars(StratStep)

\* The buy loop alone, on a connection that stays up, against a venue that
\* fills at several prices
FillPrices == {9, 10}

RecvPricedFill == RecvVenueFillAt(FillPrices)

NextBuy ==
    \/ Tick
    \/ RecvQuote
    \/ RecvPricedFill
    \/ CallBuy
    \/ StApprovalKey
    \/ StSubscribe
    \/ ObResume
    \/ StObResult
    \/ StPsblCash
    \/ StOrderSend
    \/ StOrderReturn
    \/ FwGetFill
    \/ FwExpire
    \/ StFillsResult
    \/ StUnsubscribe

SpecBuy == InitStrat /\ [][NextBuy]_vars

\* One session, from the call of run_trading_session to its exit
\* two cycles of one session on the same code: the hold phase of the first
\* has come back, the code is bought again and held a second time
CallHoldAgain ==
    /\ hd.pc = "returned" /\ st.pc = "idle"
    /\ hd.cycle = 1
    /\ \E q \in 1..MaxQty :
          hd' = [HoldFrame(StratCode, q, 10 * q) EXCEPT !.cycle = 2]
    /\ UNCHANGED <<to_end, obVars, fillVars, connVars, tradeVars, live, st, sn>>

NextCycles ==
    \/ Tick
    \/ RecvQuote
    \/ RecvTrade
    \/ RecvVenueFill
    \/ CallHold
    \/ CallHoldAgain
    \/ StApprovalKey
    \/ StSubscribe
    \/ ObResume
    \/ StObResult
    \/ StOrderSend
    \/ StOrderReturn
    \/ FwGetFill
    \/ FwExpire
    \/ StFillsResult
    \/ StUnsubscribe
    \/ HdApprovalKey
    \/ HdSubscribe
    \/ TwResume
    \/ HdTradeResult
    \/ HdUnsubscribe
    \/ HdSellResult

SpecCycles == InitStrat /\ [][NextCycles]_vars

\* wait_trade_reach alone: calls for either target at any time of the
\* session, ticks of the code arriving before, between and during the calls
TradeTargets == {10, 11}

RecvTick ==
    /\ \E f \in {g \in TradeFrames : g.code = StratCode} : RecvTradeFrame(f)
    /\ UNCHANGED <<to_end, obVars, fillVars, connVars, stratVars>>

CallWaitTradeReach ==
    /\ tw.pc = "idle"
    /\ \E target \in TradeTargets : WaitTradeReachEnter(StratCode, target)
    /\ UNCHANGED <<to_end, trade_price, trade_seq, obVars, fillVars, connVars,
                   stratVars>>

\* the caller takes the price or the TimeoutError and may call again
TakeTradeResult ==
    /\ tw.pc \in {"returned", "raised"}
    /\ tw' = [TwIdle EXCEPT !.prev = tw.pc]
    /\ UNCHANGED <<to_end, trade_price, trade_seq, trade_event, obVars, fillVars,
                   connVars, stratVars>>

NextTrade ==
    \/ Tick
    \/ RecvTick
    \/ CallWaitTradeReach
    \/ TwResume
    \/ TakeTradeResult

SpecTrade == InitStrat /\ [][NextTrade]_vars

NextSession ==
    \/ Tick
    \/ ConnLost
    \/ SessionStart
    \/ ConnectApprovalKey
    \/ ConnectOpen
    \/ ConnectSubscribe
    \/ FindCandidateResult
    \/ BuyResult
    \/ HoldResult
    \/ LiquidationResult
    \/ SessionClose

SpecSession == Init /\ [][NextSession]_vars

-----------------------------------------------------------------------------
(* Claims about wait_next_orderbook, checked under SpecOb *)

\* C3: a successful return of wait_next_orderbook(code, last_seq) carries a
\* sequence number strictly greater than last_seq, for every code, every
\* last_seq and every sequence of frames.
C3_ReturnedSeqAboveLast ==
    ob.pc = "returned" => ob.ret[1] > ob.last_seq

\* a call that started with last_seq >= 1, suspended, and returned
C3_Witness ==
    /\ ob.pc = "returned"
    /\ ob.slept
    /\ ob.last_seq >= 1

\* C4 as stated: whenever a frame raised the sequence of code above
\* last_seq before the timeout elapsed, the call does not fail with a timeout.
C4_Original ==
    ob.pc = "raised" => ~ob.hit

\* C4 as amended: a suspended waiter whose condition has become true always
\* has its event set (an update is never lost between the check, the clear
\* and the suspend), and the call fails with a timeout only when it runs at
\* or after its deadline (no time left); so an update is returned whenever
\* the waiter resumes before the deadline.
C4_NoLostWakeup ==
    /\ (/\ ob.pc = "suspended"
        /\ DictGet(orderbook_seq, ob.code, 0) > ob.last_seq
        /\ ob.code \in DOMAIN orderbook)
           => DictGet(orderbook_event, ob.code, FALSE)
    /\ ob.pc = "raised" => ob.left = 0

\* an update landed while the waiter was suspended and was returned
C4_Witness ==
    /\ ob.pc = "returned"
    /\ ob.slept
    /\ ob.hit

\* the (ask1, askq1, bid1, bidq1) of the frames of code whose payload is long
\* enough and whose four fields are all numbers
C22_WholeQuotes(code) ==
    { <<f.ask1.val, f.askq1.val, f.bid1.val, f.bidq1.val>> :
        f \in { g \in ObFrames : /\ g.code = code
                                 /\ g.n > 33
                                 /\ g.ask1.ok /\ g.askq1.ok
                                 /\ g.bid1.ok /\ g.bidq1.ok } }

\* C22: the stored quote of a code is always the four values of one whole
\* frame and exists exactly when the code has a sequence number; in every
\* step the sequence of a code either stays, and then its quote stays, or
\* grows by exactly 1 together with the quote (so it never decreases or
\* repeats); and wait_next_orderbook returns the current sequence with the
\* stored quote of the moment of return.
C22_QuoteMovesWithSequence ==
    /\ [](\A c \in Codes :
            /\ c \in DOMAIN orderbook <=> c \in DOMAIN orderbook_seq
            /\ c \in DOMAIN orderbook =>
                  /\ orderbook[c] \in C22_WholeQuotes(c)
                  /\ orderbook_seq[c] >= 1)
    /\ [][\A c \in Codes :
            \/ /\ DictGet(orderbook_seq', c, 0) = DictGet(orderbook_seq, c, 0)
               /\ DictGet(orderbook', c, <<>>) = DictGet(orderbook, c, <<>>)
            \/ /\ DictGet(orderbook_seq', c, 0) = DictGet(orderbook_seq, c, 0) + 1
               /\ c \in DOMAIN orderbook']_vars
    /\ [][(ob.pc # "returned" /\ ob'.pc = "returned") =>
             /\ ob'.code \in DOMAIN orderbook'
             /\ ob'.ret = <<orderbook_seq'[ob'.code]>> \o orderbook'[ob'.code]]_vars

\* two frames of the code were accepted while the waiter was suspended, and
\* the call returned the second one
C22_Witness ==
    /\ ob.pc = "returned"
    /\ ob.slept
    /\ ob.last_seq = 0
    /\ ob.ret[1] = 2
    /\ orderbook_seq[ob.code] = 2
    /\ Tail(ob.ret) = orderbook[ob.code]

-----------------------------------------------------------------------------
(* Claims about the private channel, checked under SpecExec *)

\* the flag texts that equal Y, 1, T or TRUE once stripped, whatever the case
C6_TruthyTexts == {"Y", "y", "1", "T", "true", " Y "}

\* the rule of the claim, read off the logged message
C6_RealFill(line) ==
    /\ line.rej \notin C6_TruthyTexts
    /\ line.qty > 0
    /\ line.price > 0

\* the places, queue and position, that hold a fill
C6_QueuedFills(d) == UNION { { <<k, i>> : i \in 1..Len(d[k]) } : k \in DOMAIN d }

\* C6: a decrypted execution message is enqueued as a fill if and only if
\* its reject flag is not truthy and its quantity and its price are positive;
\* any other message leaves every order's fill queue as it was.
C6_EnqueuedIffRealFill ==
    [][ (exec_log' # exec_log \/ fills_by_order' # fills_by_order)
          => /\ (fills_by_order' # fills_by_order) <=> C6_RealFill(exec_log')
             /\ C6_RealFill(exec_log') =>
                   /\ fill_serial' = fill_serial + 1
                   /\ Cardinality(C6_QueuedFills(fills_by_order'))
                        = Cardinality(C6_QueuedFills(fills_by_order)) + 1
             /\ exec_log'.tag = (IF C6_RealFill(exec_log')
                                 THEN "EXEC_FILL" ELSE "EXEC_NONFILL") ]_vars

\* a reject-flagged message with positive quantity and price was processed
\* after a real fill, and only the real fill is queued
C6_Witness ==
    /\ exec_log.tag = "EXEC_NONFILL"
    /\ exec_log.rej \in C6_TruthyTexts
    /\ exec_log.qty > 0
    /\ exec_log.price > 0
    /\ fill_serial = 1
    /\ Cardinality(C6_QueuedFills(fills_by_order)) = 1

\* C23 as stated, for the private channel: whatever frames arrive, the
\* receive loop goes on, and a malformed frame enqueues no fill: a fill is
\* enqueued, and logged as EXEC_FILL, only for a payload that has all the
\* fields the loop reads.
C23_Original ==
    /\ recv_task = "running"
    /\ exec_log.tag = "EXEC_FILL" => exec_log.whole

-----------------------------------------------------------------------------
(* Claims about wait_order_fills, checked under SpecFills *)

\* C5 as stated: the call returns the sums over exactly the fills that
\* arrived for the order from the start of the wait on, and (0, 0) when none
\* arrived.
C5_Original ==
    fw.pc = "returned" =>
        /\ fw.filled_qty = fw.arr_qty
        /\ fw.filled_value = fw.arr_value

\* C5 as amended: the call returns the sums over exactly the fills it took
\* from the order's queue: those already queued when the wait started and
\* those that arrived until a get on the empty queue timed out; it returns
\* (0, 0) when there were none, and it returns only at or after the deadline
\* of its last get.
C5_SumsOverQueuedAndArrived ==
    fw.pc = "returned" =>
        /\ fw.filled_qty = fw.pre_qty + fw.arr_qty
        /\ fw.filled_value = fw.pre_value + fw.arr_value
        /\ fw.left = 0

\* a call that found a fill queued, took another that arrived during the
\* wait, and returned
C5_Witness ==
    /\ fw.pc = "returned"
    /\ fw.pre_qty > 0
    /\ fw.arr_qty > 0
    /\ fw.filled_value > fw.filled_qty

\* C7: each real fill is on at most one queue, the one of its own order id,
\* and is counted at most once over all wait_order_fills calls and only by
\* the call for its own order id; a counted fill is on no queue.
C7_FillToOwnQueueCountedOnce ==
    /\ \A k \in DOMAIN fills_by_order : \A i \in 1..Len(fills_by_order[k]) :
          LET fill == fills_by_order[k][i] IN
          /\ fill.order_no = k
          /\ tally[fill.id].n = 0
          /\ \A k2 \in DOMAIN fills_by_order : \A i2 \in 1..Len(fills_by_order[k2]) :
                fills_by_order[k2][i2].id = fill.id => (k2 = k /\ i2 = i)
    /\ \A id \in 1..Len(tally) :
          /\ tally[id].n <= 1
          /\ Cardinality(tally[id].by) <= 1

\* two waits, one per order, each counted a fill of its own order
C7_Witness ==
    /\ Len(tally) >= 2
    /\ \E i, j \in 1..Len(tally) :
          /\ tally[i].n = 1 /\ tally[i].by = {1}
          /\ tally[j].n = 1 /\ tally[j].by = {2}

-----------------------------------------------------------------------------
(* Claims about the execution loops, checked under SpecStrat and SpecBuy *)

\* C8 as stated: the quantity the buy or sell loop returns equals the total
\* quantity of the real fills the receive loop got, up to the return, for the
\* orders the loop placed, also when a fill arrives after the total timeout
\* or the idle window of its order.
C8_Original ==
    st.pc = "returned" => st.ret[1] = st.recv_qty

\* C9: when ioc_buy_with_ws, ioc_sell_with_ws or wait_for_1pct_then_sell has
\* returned or raised, every subscribe it sent was followed by a call of the
\* matching unsubscribe, and the server holds no subscription of the function
\* for its topic and code.
C9_UnsubscribeOnEveryExit ==
    /\ st.pc \in {"returned", "raised"} =>
          /\ st.sub_sent => st.unsub_called
          /\ <<ObTopic, st.code>> \notin subs
    /\ hd.pc \in {"returned", "raised"} =>
          /\ hd.sub_sent => hd.unsub_called
          /\ <<TradeTopic, hd.code>> \notin subs
          /\ <<ObTopic, hd.code>> \notin subs

\* inside wait_for_1pct_then_sell, after its own unsubscribe, the sell loop
\* has caught an exception after placing an order and has returned
C9_Witness ==
    /\ hd.pc = "selling"
    /\ hd.unsub_called
    /\ st.pc = "returned"
    /\ st.caught
    /\ st.placed # {}
    /\ st.unsub_called
    /\ ws_sock = "open"

\* C12: ioc_buy_with_ws returns (Q, V / Q), Q the sum of the quantities and
\* V the sum of qty * price of the fills collected for the orders it placed,
\* and (0, 0.0) when nothing filled; Q is never negative.
C12_BuyReturnsWeightedMean ==
    (st.fn = "buy" /\ st.pc = "returned") =>
        LET got == Collected(tally, st.placed)
            Q == SumQty(got)
            V == SumValue(got) IN
        /\ Q >= 0
        /\ st.ret = IF Q = 0 THEN <<0, <<0, 1>>>> ELSE <<Q, <<V, Q>>>>

\* a buy that returned after collecting two fills at different prices
C12_Witness ==
    /\ st.fn = "buy"
    /\ st.pc = "returned"
    /\ st.ret[1] >= 2
    /\ \E i, j \in 1..Len(tally) :
          /\ tally[i].n = 1
          /\ tally[j].n = 1
          /\ tally[i].price # tally[j].price

\* C13: once the buy loop has computed an affordable quantity <= 0 in an
\* attempt, it is on its way out: no order is placed in that attempt, no
\* later attempt is made, and the totals of that moment are returned.
C13_NoCashStopsTheLoop ==
    st.nocash_at > 0 =>
        /\ st.pc \in {"unsub", "returned", "raised"}
        /\ st.attempt = st.nocash_at
        /\ st.ordered_at < st.nocash_at
        /\ st.pc = "returned" => st.ret[1] = st.nocash_qty

\* a buy that found no cash in an attempt with attempts left, after a quote
\* with ask1 > 0, and returned
C13_Witness ==
    /\ st.pc = "returned"
    /\ st.nocash_at > 0
    /\ st.nocash_at < st.max_attempts
    /\ st.px > 0
    /\ to_end > 0

\* C14 as stated: after order_cash has raised in attempt k < max_attempts the
\* loop is not over: it goes on to attempt k + 1.
C14_Original ==
    (/\ st.rejected_at > 0
     /\ st.rejected_at < st.max_attempts
     /\ st.pc \in {"unsub", "returned", "raised"})
        => st.attempt > st.rejected_at

C24_EveryCallEnds ==
    /\ [](Cardinality(st.placed) <= st.max_attempts)
    /\ []<>(/\ st.pc \in {"idle", "returned", "raised"}
            /\ hd.pc \in {"idle", "returned", "raised"}
            /\ ob.pc # "suspended"
            /\ fw.pc \notin {"first", "next"}
            /\ tw.pc # "suspended")

\* a sell loop that used every attempt it was given, each with an order
\* placed, and returned
C24_Witness ==
    /\ st.fn = "sell"
    /\ st.pc = "returned"
    /\ st.max_attempts = MaxAttempts
    /\ Cardinality(st.placed) = MaxAttempts

\* the real fills the receive loop has processed so far for one order
C28_ReceivedFor(t, order_no) == SelectSeq(t, LAMBDA e : e.order_no = order_no)

\* C28: between the placement of an order and the start of wait_order_fills
\* for it, every fill processed for the order sits in the order's queue; and
\* when wait_order_fills returns, its quantity and value are those of all the
\* fills processed for the order up to then, the early ones included.
C28_EarlyFillNotLost ==
    /\ [](st.pc = "order_resp" =>
            LET q == DictGet(fills_by_order, OrderQueueKey(st.odno), <<>>)
                got == C28_ReceivedFor(tally, st.odno) IN
            /\ SumQty(q) = SumQty(got)
            /\ SumValue(q) = SumValue(got))
    /\ [][(st.pc = "wait_fills" /\ fw.pc # "returned" /\ fw'.pc = "returned") =>
            LET got == C28_ReceivedFor(tally', fw'.order_no) IN
            /\ fw'.filled_qty = SumQty(got)
            /\ fw'.filled_value = SumValue(got)]_vars

\* a fill arrived before the buy loop began to wait for its order, and the
\* wait returned it
C28_Witness ==
    /\ st.fn = "buy"
    /\ st.pc = "wait_fills"
    /\ fw.pc = "returned"
    /\ fw.pre_qty > 0
    /\ fw.arr_qty = 0
    /\ fw.filled_qty = fw.pre_qty

\* C27 as stated: the hold phase finds its target reached only by a trade
\* tick processed after it subscribed; a price stored in an earlier cycle
\* never satisfies the target of a later one.
C27_Original ==
    hd.target_hit => DictGet(trade_seq, hd.code, 0) > hd.seq_at_sub

\* C26 as stated: the buy loop sends no order at or after the session
\* deadline.
C26_Original ==
    st.fn = "buy" => ~st.late

-----------------------------------------------------------------------------
(* Claims about run_trading_session, checked under SpecSession *)

\* C1: the forced liquidation is invoked at most once, and a session that
\* returns with a position recorded as open has invoked it exactly once, for
\* the code and the full quantity of that position.
C1_OpenPositionLiquidatedOnce ==
    /\ Len(sn.liq) <= 1
    /\ (sn.pc = "returned" /\ sn.open_position # NoPosition) =>
          sn.liq = << <<sn.open_position[1], sn.open_position[2]>> >>

\* a session that completed a cycle, then failed to sell a later position,
\* liquidated it at the deadline and returned
C1_Witness ==
    /\ sn.pc = "returned"
    /\ sn.done >= 1
    /\ sn.open_position # NoPosition
    /\ Len(sn.liq) = 1

\* C2 as stated: from a sell phase that returned sold quantity <= 0 until the
\* forced liquidation is invoked, the position of that cycle stays the
\* recorded open position through every later scan, buy and sell phase.
C2_Original ==
    (/\ sn.carried # NoPosition
     /\ sn.liq = <<>>
     /\ sn.pc \in {"scan", "buy", "hold"})
        => sn.open_position = sn.carried

\* C10 as stated: once websockets.connect has come back, every exit of
\* run_trading_session has called ws.close().
C10_Original ==
    (sn.pc \in {"returned", "raised"} /\ sn.opened) => sn.close_called

\* C11 as stated: once the transport has failed and the receive loop has
\* terminated, the session starts no scan, buy phase, sell phase or forced
\* liquidation any more; its only further steps are those of its abort.
C11_Original ==
    [][(recv_task = "failed" /\ sn'.pc # sn.pc)
          => sn'.pc \in {"closing", "raised", "returned"}]_vars

\* C18: the completed-cycle counter stays between 0 and 5, it changes only
\* by growing by 1 at the end of a sell phase, and once it is 5 the session
\* is in no candidate scan, buy or sell phase any more.
C18_CycleCounterCapped ==
    /\ [](/\ sn.done \in 0..MaxCycles
          /\ sn.done = MaxCycles => sn.pc \notin {"scan", "buy", "hold"})
    /\ [][sn'.done # sn.done => (sn'.done = sn.done + 1 /\ sn.pc = "hold")]_vars

\* a session that returned after its fifth completed cycle, the deadline
\* still ahead
C18_Witness ==
    /\ sn.pc = "returned"
    /\ sn.done = MaxCycles
    /\ to_end > 0

\* C19 as stated: the counter is incremented and the open position cleared
\* only when the sell phase sold the full bought quantity.
C19_Original ==
    [][(sn.pc = "hold" /\ (sn'.done # sn.done \/ sn'.open_position = NoPosition))
          => sn'.sold_qty = sn.buy_qty]_vars

\* C20 as stated: the forced liquidation is reported as a success only when
\* it sold the full quantity of the open position, and as failed, for manual
\* intervention, whenever a remainder is left.
C20_Original ==
    sn.report # "" =>
        (sn.report = "LIQUIDATED" <=> sn.sold_qty = sn.open_position[2])

\* C21: find_candidate never returns a code whose cooldown stamp is less
\* than the window before the poll time, whatever the feed and however often
\* the code appears in it; and a code whose stamp is at least the window old
\* and whose rate is in the band 20..28 is picked when the feed offers it.
C21_CooldownBlocksThenReleases ==
    /\ sn.pc = "buy" =>
          \/ sn.picked_last = NoStamp
          \/ sn.picked_at - sn.picked_last >= CooldownWindow
    /\ \A feed \in RankingFeeds :
          LET code == ScanItems(feed, sn.cooldowns, KstNow) IN
          code \in DOMAIN sn.cooldowns =>
              KstNow - sn.cooldowns[code] >= CooldownWindow
    /\ \A code \in DOMAIN sn.cooldowns : \A rate \in {20, 28} :
          KstNow - sn.cooldowns[code] >= CooldownWindow =>
              ScanItems(<<[code |-> code, rate |-> Num(rate)]>>,
                        sn.cooldowns, KstNow) = code

\* a code that was bought before is picked again at the poll at which its
\* stamp is exactly one window old
C21_Witness ==
    /\ sn.pc = "buy"
    /\ sn.picked_last # NoStamp
    /\ sn.picked_at - sn.picked_last = CooldownWindow
    /\ sn.done >= 1

\* C25 as stated: after every buy phase and every hold phase of a code,
\* whatever its outcome, the cooldown table holds a stamp for the code that
\* is not earlier than the end of the phase.
C25_Original ==
    sn.ended_at # NoStamp =>
        DictGet(sn.cooldowns, sn.code, NoStamp) >= sn.ended_at

-----------------------------------------------------------------------------
(* Claims about wait_trade_reach, checked under SpecTrade *)

\* C16 as stated: wait_trade_reach returns only a price p >= target that is
\* the stored last trade price of the code at the moment of return; a call
\* that is waiting resolves on the first processed tick at or above the
\* target (once such a tick was processed it does not go back to waiting);
\* and the call fails at the deadline only when no such tick was processed.
C16_Original ==
    /\ [][(tw.pc # "returned" /\ tw'.pc = "returned")
            => /\ tw'.ret >= tw'.target
               /\ tw'.code \in DOMAIN trade_price'
               /\ tw'.ret = trade_price'[tw'.code]]_vars
    /\ []((tw.pc = "suspended" /\ tw.hit) => DictGet(trade_event, tw.code, FALSE))
    /\ [](tw.pc = "raised" => ~tw.hit)

\* C17 as stated: a call made while the stored price of the code is already
\* at or above the target returns that price without suspending, whatever
\* the time relative to the deadline.
C17_Original ==
    (tw.pc # "idle" /\ tw.seen >= tw.target)
        => (tw.pc = "returned" /\ ~tw.slept /\ tw.ret = tw.seen)

\* C17 as amended: a call made before the deadline while the stored price of
\* the code is already at or above the target returns that price without
\* suspending; a call made at or after the deadline raises TimeoutError
\* without suspending, whatever the stored price.
C17_ReturnsAtOnceBeforeDeadline ==
    /\ (tw.pc # "idle" /\ tw.seen >= tw.target /\ tw.open)
          => (tw.pc = "returned" /\ ~tw.slept /\ tw.ret = tw.seen)
    /\ (tw.pc # "idle" /\ ~tw.open) => (tw.pc = "raised" /\ ~tw.slept)

\* the wait is called again right after it succeeded, before the deadline,
\* with the price still at the target, and returns it at once
C17_Witness ==
    /\ tw.pc = "returned"
    /\ tw.prev = "returned"
    /\ tw.open
    /\ tw.seen = tw.target
    /\ tw.ret = tw.seen
    /\ ~tw.slept

=============================================================================
